---- MODULE Spec2Model ----
(***************************************************************************)
(* Serialization benchmark harness: the React Native screen in its two     *)
(* versions (src/SerializationTest.tsx: generated FlatBuffers classes,      *)
(* lines 1-325, and the low-level FlatBuffers API, lines 327-676), the      *)
(* basic web page (src/web/src/test.ts) and the extended web page           *)
(* (src/unnamed/part_001).                                                  *)
(*                                                                         *)
(* Time is an integer number of microseconds; performance.now() returns    *)
(* milliseconds, so a reading t stands for t/1000 ms.  Text is a sequence   *)
(* of character codes, a byte buffer a sequence of numbers 0..255.          *)
(***************************************************************************)
EXTENDS Integers, Sequences, FiniteSets, TLC

(* ------------------------------ bounds -------------------------------- *)

\* Iterations per small test (1000 in the app, 10000 on the web pages).
ITERATIONS == 2

\* Runs that may be started in one session.
MaxRuns == 2

\* Clock readings, over a whole session, that see the clock advanced.
MaxTicks == 2

\* Persons in the large data set (stands for the 5MB asset).
MaxPersons == 2

(* ------------------------- program constants -------------------------- *)

\* setTimeout(() => resolve(), 100)
PauseMs == 100

(* ------------------------------ text ---------------------------------- *)

RECURSIVE Digits(_)
\* The decimal text of a natural number (template literal / JSON number).
Digits(n) ==
  IF n < 10 THEN <<48 + n>> ELSE Digits(n \div 10) \o <<48 + (n % 10)>>

StrBar == <<98, 97, 114>>
StrFoo == <<102, 111, 111>>
StrFooNumber == <<102, 111, 111, 95, 110, 117, 109, 98, 101, 114>>

(* ---------------------------- fixtures -------------------------------- *)

SmallFormats == {"JSON", "MessagePack", "FlatBuffers", "Avro"}
LargeFormats == {"JSON (5MB)", "MessagePack (5MB)", "FlatBuffers (5MB)"}

IsLarge(format) == format \in LargeFormats

\* The record built in iteration i of a small test.
Fixture(version, format, i) ==
  [foo |-> IF version = "webx" /\ format = "JSON"
             THEN StrBar \o Digits(i) ELSE StrBar,
   foo_number |-> i]

\* largeJsonData: an array of persons.
LargeData ==
  [p \in 1..MaxPersons |->
     [name |-> <<110>> \o Digits(p), language |-> <<101, 110>>,
      id |-> Digits(p), bio |-> <<98, 105, 111>>, version |-> p]]

(* ------------------------ textual codec (JSON) ------------------------ *)

Quote(s) == <<34>> \o s \o <<34>>

\* JSON.stringify(data) for a TestData record: {"foo":"...","foo_number":n}
JsonStringify(data) ==
  <<123>> \o Quote(StrFoo) \o <<58>> \o Quote(data.foo) \o <<44>>
          \o Quote(StrFooNumber) \o <<58>> \o Digits(data.foo_number) \o <<125>>

RECURSIVE StrEnd(_, _)
\* Position of the quote that closes the string whose text starts at p.
StrEnd(s, p) == IF p > Len(s) \/ s[p] = 34 THEN p ELSE StrEnd(s, p + 1)

RECURSIVE NumEnd(_, _)
\* Position after the last digit of the number that starts at p.
NumEnd(s, p) ==
  IF p > Len(s) \/ s[p] \notin 48..57 THEN p ELSE NumEnd(s, p + 1)

RECURSIVE NumValue(_)
NumValue(ds) ==
  IF ds = <<>> THEN 0
  ELSE 10 * NumValue(SubSeq(ds, 1, Len(ds) - 1)) + (ds[Len(ds)] - 48)

RECURSIVE JsonMembers(_, _, _)
\* The members of the object text s from position p on, as a set of
\* [key, isStr, str, num].
JsonMembers(s, p, acc) ==
  IF p > Len(s) \/ s[p] = 125 THEN acc
  ELSE IF s[p] \in {123, 44} THEN JsonMembers(s, p + 1, acc)
  ELSE LET kEnd == StrEnd(s, p + 1)
           key == SubSeq(s, p + 1, kEnd - 1)
           v == kEnd + 2
       IN IF s[v] = 34
            THEN LET e == StrEnd(s, v + 1)
                 IN JsonMembers(s, e + 1,
                      acc \cup {[key |-> key, isStr |-> TRUE,
                                 str |-> SubSeq(s, v + 1, e - 1), num |-> 0]})
            ELSE LET e == NumEnd(s, v)
                 IN JsonMembers(s, e,
                      acc \cup {[key |-> key, isStr |-> FALSE, str |-> <<>>,
                                 num |-> NumValue(SubSeq(s, v, e - 1))]})

\* The TestData view of a decoded map: missing members read as undefined,
\* modelled as the empty string and -1.
AsTestData(members) ==
  [foo |-> IF \E m \in members : m.key = StrFoo /\ m.isStr
             THEN (CHOOSE m \in members : m.key = StrFoo /\ m.isStr).str
             ELSE <<>>,
   foo_number |-> IF \E m \in members : m.key = StrFooNumber /\ ~m.isStr
                    THEN (CHOOSE m \in members :
                            m.key = StrFooNumber /\ ~m.isStr).num
                    ELSE -1]

\* JSON.parse(text) as TestData
JsonParse(s) == AsTestData(JsonMembers(s, 1, {}))

(* -------------------- compact binary codec (MessagePack) -------------- *)

\* fixstr: 0xA0 + length, then the bytes (length < 32)
MsgpackStr(s) == <<160 + Len(s)>> \o s

\* positive fixint, uint 8 (0xCC), uint 16 (0xCD)
MsgpackUInt(n) ==
  IF n < 128 THEN <<n>>
  ELSE IF n < 256 THEN <<204, n>>
  ELSE <<205, n \div 256, n % 256>>

\* encode(data): fixmap of 2 entries (0x82)
MsgpackEncode(data) ==
  <<130>> \o MsgpackStr(StrFoo) \o MsgpackStr(data.foo)
          \o MsgpackStr(StrFooNumber) \o MsgpackUInt(data.foo_number)

\* One item at position p: [isStr, str, num, next].
MsgpackItem(b, p) ==
  IF b[p] \in 160..191
    THEN [isStr |-> TRUE, str |-> SubSeq(b, p + 1, p + b[p] - 160), num |-> 0,
          next |-> p + 1 + b[p] - 160]
  ELSE IF b[p] = 204
    THEN [isStr |-> FALSE, str |-> <<>>, num |-> b[p + 1], next |-> p + 2]
  ELSE IF b[p] = 205
    THEN [isStr |-> FALSE, str |-> <<>>, num |-> 256 * b[p + 1] + b[p + 2],
          next |-> p + 3]
  ELSE [isStr |-> FALSE, str |-> <<>>, num |-> b[p], next |-> p + 1]

RECURSIVE MsgpackEntries(_, _, _, _)
\* n key/value entries from position p on.
MsgpackEntries(b, p, n, acc) ==
  IF n = 0 \/ p > Len(b) THEN acc
  ELSE LET k == MsgpackItem(b, p)
           v == MsgpackItem(b, k.next)
       IN MsgpackEntries(b, v.next, n - 1,
            acc \cup {[key |-> k.str, isStr |-> v.isStr, str |-> v.str,
                       num |-> v.num]})

\* decode(bytes) as TestData
MsgpackDecode(b) == AsTestData(MsgpackEntries(b, 2, b[1] - 128, {}))

(* ---------------------- schema binary codec (Avro) -------------------- *)

RECURSIVE Varint(_)
Varint(z) ==
  IF z < 128 THEN <<z>> ELSE <<128 + (z % 128)>> \o Varint(z \div 128)

\* Variant: the zig-zag step is left out.
AvroLongPlain(n) == Varint(n)

\* zig-zag, then base-128 varint (non-negative values)
AvroLong(n) == Varint(2 * n)

AvroString(s) == AvroLong(Len(s)) \o s

\* schema.toBuffer(data): the fields in schema order, foo then foo_number
AvroToBuffer(data) == AvroString(data.foo) \o AvroLong(data.foo_number)

RECURSIVE ReadVarint(_, _)
\* [val, next] of the varint at position p.
ReadVarint(b, p) ==
  IF b[p] < 128 THEN [val |-> b[p], next |-> p + 1]
  ELSE LET r == ReadVarint(b, p + 1)
       IN [val |-> (b[p] - 128) + 128 * r.val, next |-> r.next]

\* schema.fromBuffer(bytes)
AvroFromBuffer(b) ==
  LET len == ReadVarint(b, 1)
      n == len.val \div 2
      num == ReadVarint(b, len.next + n)
  IN [foo |-> SubSeq(b, len.next, len.next + n - 1),
      foo_number |-> num.val \div 2]

(* -------------------- table binary codec (FlatBuffers) ---------------- *)

Int16LE(n) == <<n % 256, (n \div 256) % 256>>

Int32LE(n) ==
  <<n % 256, (n \div 256) % 256, (n \div 65536) % 256, (n \div 16777216) % 256>>

\* bytes_[offset]: a read outside the array is undefined, which the bitwise
\* operators of readInt16/readInt32 take as 0.  Offsets count from 0.
ByteAt(b, off) == IF off >= 0 /\ off < Len(b) THEN b[off + 1] ELSE 0

\* ByteBuffer.readInt16 (signed, little endian)
ReadInt16(b, off) ==
  LET u == ByteAt(b, off) + 256 * ByteAt(b, off + 1)
  IN IF u >= 32768 THEN u - 65536 ELSE u

\* ByteBuffer.readInt32 (signed, little endian)
ReadInt32(b, off) ==
  LET low == ByteAt(b, off) + 256 * ByteAt(b, off + 1)
             + 65536 * ByteAt(b, off + 2)
      high == ByteAt(b, off + 3)
  IN low + 16777216 * (IF high >= 128 THEN high - 256 ELSE high)

\* builder.createString(s): length, bytes, terminator, padded to 4 bytes
FbString(s) ==
  Int32LE(Len(s)) \o s \o <<0>>
    \o [j \in 1..((4 - ((Len(s) + 1) % 4)) % 4) |-> 0]

\* The finished buffer of createString(foo); createTestData(builder,
\* fooOffset, n); finish(): root offset, vtable, table, string.  A field
\* equal to its default (foo_number 0) is not written and its vtable slot is
\* trimmed.
FbTestData(foo, n) ==
  IF n = 0
    THEN Int32LE(12) \o <<0, 0>>
         \o Int16LE(6) \o Int16LE(8) \o Int16LE(4)
         \o Int32LE(6) \o Int32LE(4) \o FbString(foo)
    ELSE Int32LE(12)
         \o Int16LE(8) \o Int16LE(12) \o Int16LE(8) \o Int16LE(4)
         \o Int32LE(8) \o Int32LE(n) \o Int32LE(4) \o FbString(foo)

\* TestData.getRootAsTestData(bb): bb_pos = readInt32(position) + position
FbRoot(b) == ReadInt32(b, 0)

\* Table.__offset(bb_pos, vtableOffset)
FbOffset(b, pos, vtableOffset) ==
  LET vtable == pos - ReadInt32(b, pos)
  IN IF vtableOffset < ReadInt16(b, vtable)
       THEN ReadInt16(b, vtable + vtableOffset) ELSE 0

\* Table.__string(offset)
FbReadString(b, offset) ==
  LET at == offset + ReadInt32(b, offset)
      len == ReadInt32(b, at)
  IN [j \in 1..len |-> ByteAt(b, at + 4 + j - 1)]

\* testData.foo(): null is modelled as the empty string
FbFoo(b) ==
  LET pos == FbRoot(b)
      o == FbOffset(b, pos, 4)
  IN IF o # 0 THEN FbReadString(b, pos + o) ELSE <<>>

\* testData.fooNumber()
FbFooNumber(b) ==
  LET pos == FbRoot(b)
      o == FbOffset(b, pos, 6)
  IN IF o # 0 THEN ReadInt32(b, pos + o) ELSE 0

\* The deserialize pass of the screen's low-level version on one payload, in
\* iteration i: the root is read from the last 4 bytes of the buffer, the
\* vtable and the two field slots from there.  Gives the fields it read,
\* the number it read (-1 if none) and its console.warn calls.
LowLevelRead(b, i) ==
  LET root == ReadInt32(b, Len(b) - 4)
      vtableOffset == root - ReadInt32(b, root)
      field0Offset == ReadInt16(b, vtableOffset + 4)
      field1Offset == ReadInt16(b, vtableOffset + 6)
      stringOffset == ReadInt32(b, root + field0Offset)
      stringPos == root + field0Offset + stringOffset
      stringLength == ReadInt32(b, stringPos)
      numberValue == ReadInt32(b, root + field1Offset)
      readString == field0Offset # 0 /\ stringOffset # 0
      readNumber == field1Offset # 0
  IN [read |-> (IF readString THEN {"foo"} ELSE {})
                 \cup (IF readNumber THEN {"foo_number"} ELSE {}),
      numberValue |-> IF readNumber THEN numberValue ELSE -1,
      warnings |->
        (IF readString /\ stringLength # 3
           THEN {[kind |-> "warn", text |-> "FlatBuffers string length mismatch",
                  i |-> i]}
           ELSE {})
        \cup
        (IF readNumber /\ numberValue # i
           THEN {[kind |-> "warn", text |-> "FlatBuffers number mismatch", i |-> i]}
           ELSE {})]

(* ------------------------- large data codecs -------------------------- *)

StrName == <<110, 97, 109, 101>>
StrLanguage == <<108, 97, 110, 103, 117, 97, 103, 101>>
StrId == <<105, 100>>
StrBio == <<98, 105, 111>>
StrVersion == <<118, 101, 114, 115, 105, 111, 110>>

\* One person as JSON text.
PersonJson(p) ==
  <<123>> \o Quote(StrName) \o <<58>> \o Quote(p.name) \o <<44>>
          \o Quote(StrLanguage) \o <<58>> \o Quote(p.language) \o <<44>>
          \o Quote(StrId) \o <<58>> \o Quote(p.id) \o <<44>>
          \o Quote(StrBio) \o <<58>> \o Quote(p.bio) \o <<44>>
          \o Quote(StrVersion) \o <<58>> \o Digits(p.version) \o <<125>>

\* One person as a MessagePack fixmap of 5 entries (0x85).
PersonMsgpack(p) ==
  <<133>> \o MsgpackStr(StrName) \o MsgpackStr(p.name)
          \o MsgpackStr(StrLanguage) \o MsgpackStr(p.language)
          \o MsgpackStr(StrId) \o MsgpackStr(p.id)
          \o MsgpackStr(StrBio) \o MsgpackStr(p.bio)
          \o MsgpackStr(StrVersion) \o MsgpackUInt(p.version)

\* One person as written by createString (four times) and
\* Person.createPerson: the four strings, then the version.
PersonFb(p) ==
  FbString(p.name) \o FbString(p.language) \o FbString(p.id)
    \o FbString(p.bio) \o Int32LE(p.version)

\* JSON.stringify / encode / the PersonList buffer of the whole data set:
\* the array of the encoded persons, in order.
LargeEncode(format, data) ==
  [j \in 1..Len(data) |->
     IF format = "FlatBuffers (5MB)" THEN PersonFb(data[j])
     ELSE IF format = "MessagePack (5MB)" THEN PersonMsgpack(data[j])
     ELSE PersonJson(data[j])]

\* What the deserialize half of a large test adds up: the array length
\* (JSON, MessagePack) or the persons' versions (FlatBuffers).
LargeSum(format, payload) ==
  IF format = "FlatBuffers (5MB)"
    THEN LET RECURSIVE Sum(_)
             Sum(j) == IF j = 0 THEN 0
                       ELSE Sum(j - 1) + ReadInt32(payload[j], Len(payload[j]) - 4)
         IN Sum(Len(payload))
    ELSE Len(payload)

(* ------------------------------ state --------------------------------- *)

VARIABLES
  version,     \* which program runs: "rn", "rnlow", "web" or "webx"
  lib,         \* what the FlatBuffers builder writes: see FbWritten
  now,         \* performance.now(), in microseconds
  ticks,       \* clock readings so far that saw the clock advanced
  isRunning,   \* React state isRunning (rn)
  results,     \* React state results (rn)
  runButton,   \* the trigger as shown: [disabled, textContent]
  display,     \* resultsDiv.style.display; rn: whether the results view is rendered
  cards,       \* resultsContent.innerHTML; rn: the rendered result cards
  shown,       \* the results the cards were rendered from
  inv,         \* the invocations of runAllTests, in starting order
  cur,         \* the invocation whose synchronous code is executing, 0 if none
  frame,       \* the locals of the test function executing (or last executed)
  heap,        \* the byte buffers the test function has allocated
  console,     \* console.log / console.warn output
  resumedAt    \* the clock when the executing synchronous section began

vars == <<version, lib, now, ticks, isRunning, results, runButton, display, cards,
          shown, inv, cur, frame, heap, console, resumedAt>>

Versions == {"rn", "rnlow", "web", "webx"}

\* The two versions of the React Native screen.
IsApp(v) == v \in {"rn", "rnlow"}

\* The FlatBuffers library is not part of the repository.  "faithful" is the
\* library as published; the other two stand for a library that stores a
\* different string or a different number, the cases the screen's
\* validation of the decoded values is written for.
Libraries == {"faithful", "other string", "other number"}

\* The buffer the builder hands back for createString(foo) and the number n.
FbWritten(l, foo, n) ==
  IF l = "other string" THEN FbTestData(SubSeq(foo, 1, Len(foo) - 1), n)
  ELSE IF l = "other number" THEN FbTestData(foo, n + 1)
  ELSE FbTestData(foo, n)

\* Variant: the table test is called before the compact binary test.
TestsSwapped(v) ==
  IF v = "webx"
    THEN <<"JSON", "FlatBuffers", "MessagePack", "Avro",
           "JSON (5MB)", "MessagePack (5MB)", "FlatBuffers (5MB)">>
    ELSE <<"JSON", "FlatBuffers", "MessagePack">>

\* Variant: runAllTests ends before its last test.
TestsWithoutLast(v) ==
  IF v = "webx"
    THEN <<"JSON", "MessagePack", "FlatBuffers", "Avro",
           "JSON (5MB)", "MessagePack (5MB)">>
    ELSE <<"JSON", "MessagePack">>

\* The test functions runAllTests calls, in the order it calls them.
Tests(v) ==
  IF v = "webx"
    THEN <<"JSON", "MessagePack", "FlatBuffers", "Avro",
           "JSON (5MB)", "MessagePack (5MB)", "FlatBuffers (5MB)">>
    ELSE <<"JSON", "MessagePack", "FlatBuffers">>

\* The awaited 100 ms timers between test k - 1 and test k.
PausesBefore(v, k) == IF k = 1 THEN 0 ELSE IF v = "webx" /\ k = 3 THEN 2 ELSE 1

\* The loop bound of a test: ITERATIONS, or one pass over the large data.
Iter(format) == IF IsLarge(format) THEN 1 ELSE ITERATIONS

\* Variant: the loop stops one pass early.
LoopContinuesShort(i, n) == i < n - 1

\* for (let i = 0; i < n; i++)
LoopContinues(i, n) == i < n

\* What the clock may have advanced by between two readings, in microseconds
\* (a clock that reports in steps of 25 microseconds).
ClockSteps == {0, 25}

Advance(d) == IF d > 0 THEN 1 ELSE 0

(* ------------------------------ buffers ------------------------------- *)

\* A Uint8Array (or string): the last len bytes of buffer buf.
Undefined == [buf |-> 0, len |-> 0]

\* The bytes a view shows now.
Read(h, v) ==
  IF v.buf = 0 THEN <<>>
  ELSE LET b == h[v.buf]
       IN IF v.len >= Len(b) THEN b ELSE SubSeq(b, Len(b) - v.len + 1, Len(b))

\* A freshly allocated buffer holding bytes, and the view of all of it.
Alloc(h, bytes) ==
  [heap |-> Append(h, bytes), view |-> [buf |-> Len(h) + 1, len |-> Len(bytes)]]

\* builder.asUint8Array(): a view of the builder's own buffer, no copy
AsUint8Array(builderBuf, bytes) == [buf |-> builderBuf, len |-> Len(bytes)]

\* Variant: the view of the builder's buffer is stored as it is.
SliceNoCopy(h, v) == [heap |-> h, view |-> v]

\* buf.slice(): a copy in a buffer of its own
Slice(h, v) == Alloc(h, Read(h, v))

(* --------------------------- test functions --------------------------- *)

NoData == [foo |-> <<>>, foo_number |-> -1]

\* Whether the FlatBuffers test of this version keeps one builder for all
\* iterations (the web pages) or makes one per iteration (the app).
ReusesBuilder(v) == v \in {"web", "webx"}

\* Variant: the start is read before the pause is awaited.
TestStartBeforePause(beforePause, afterPause) == beforePause

\* The clock reading a test function starts from: performance.now() is the
\* first statement of the function, so it is read after the pause before it.
TestStart(beforePause, afterPause) == afterPause

\* The locals of a test function when its serialize loop is about to start.
NewFrame(v, format, t) ==
  [format |-> format, phase |-> "Serializing", i |-> 0,
   startSerialize |-> t, serializeTime |-> 0,
   startDeserialize |-> 0, deserializeTime |-> 0, totalTime |-> 0,
   serialized |-> IF format = "FlatBuffers" /\ ReusesBuilder(v)
                    THEN [j \in 1..ITERATIONS |-> Undefined] ELSE <<>>,
   builder |-> IF format = "FlatBuffers" /\ ReusesBuilder(v) THEN 1 ELSE 0,
   sum |-> 0, parsed |-> NoData, serializeCalls |-> 0, deserializeCalls |-> 0,
   data |-> NoData,
   read |-> {}]

\* The heap when a test function starts: the reused builder's buffer, if any.
NewHeap(v, format) ==
  IF format = "FlatBuffers" /\ ReusesBuilder(v) THEN << <<>> >> ELSE <<>>

IdleFrame ==
  [format |-> "", phase |-> "Idle", i |-> 0,
   startSerialize |-> 0, serializeTime |-> 0,
   startDeserialize |-> 0, deserializeTime |-> 0, totalTime |-> 0,
   serialized |-> <<>>, builder |-> 0, sum |-> 0, parsed |-> NoData,
   serializeCalls |-> 0, deserializeCalls |-> 0, data |-> NoData,
   read |-> {}]

\* The payload one serialize call produces.
Encode(v, format, i) ==
  IF format = "JSON" THEN JsonStringify(Fixture(v, format, i))
  ELSE IF format = "MessagePack" THEN MsgpackEncode(Fixture(v, format, i))
  ELSE IF format = "Avro" THEN AvroToBuffer(Fixture(v, format, i))
  ELSE IF format = "FlatBuffers" THEN FbWritten(lib, StrBar, i)
  ELSE LargeEncode(format, LargeData)

\* The value one deserialize call produces from a small payload.
Decode(format, bytes) ==
  IF format = "JSON" THEN JsonParse(bytes)
  ELSE IF format = "MessagePack" THEN MsgpackDecode(bytes)
  ELSE IF format = "Avro" THEN AvroFromBuffer(bytes)
  ELSE IF format = "FlatBuffers"
    THEN [foo |-> FbFoo(bytes), foo_number |-> FbFooNumber(bytes)]
  ELSE NoData

\* The value one pass of the deserialize loop obtains from payload i.
Deserialized(v, format, bytes, i) ==
  IF v = "rnlow" /\ format = "FlatBuffers"
    THEN [foo |-> <<>>, foo_number |-> LowLevelRead(bytes, i).numberValue]
    ELSE Decode(format, bytes)

AllFields(format) ==
  IF IsLarge(format) THEN {"name", "language", "id", "bio", "version"}
  ELSE {"foo", "foo_number"}

\* The fields of the decoded record(s) one pass of the deserialize loop
\* reads.  JSON.parse, decode and fromBuffer build the whole value; the
\* FlatBuffers accessors read a field when they are called.
FieldsRead(v, format, bytes, i) ==
  IF format = "FlatBuffers"
    THEN IF v = "rnlow" THEN LowLevelRead(bytes, i).read
         ELSE {"foo", "foo_number"}
  ELSE IF format = "FlatBuffers (5MB)" THEN {"version"}
  ELSE AllFields(format)

\* One pass of the serialize loop: [heap, serialized] after it.
SerializeOne(v, f, h) ==
  LET bytes == Encode(v, f.format, f.i)
  IN IF f.format = "FlatBuffers" /\ ReusesBuilder(v)
       THEN LET written == [h EXCEPT ![f.builder] = bytes]
                copy == Slice(written, AsUint8Array(f.builder, bytes))
            IN [heap |-> copy.heap,
                serialized |-> [f.serialized EXCEPT ![f.i + 1] = copy.view]]
       ELSE LET a == Alloc(h, bytes)
            IN [heap |-> a.heap, serialized |-> Append(f.serialized, a.view)]

\* What one pass of the deserialize loop adds to sum.
SumStep(v, format, parsed, payload) ==
  IF IsLarge(format) THEN LargeSum(format, payload)
  ELSE IF IsApp(v) THEN 0
  ELSE IF format = "FlatBuffers" THEN parsed.foo_number + Len(parsed.foo)
  ELSE parsed.foo_number

\* Variant: the validation of the decoded values reports nothing.
WarningsNone(v, format, i, parsed) == {}

\* The console.warn calls of one pass of the FlatBuffers check of the
\* screen's generated-classes version.
Warnings(v, format, i, parsed) ==
  IF v = "rn" /\ format = "FlatBuffers"
    THEN (IF parsed.foo # StrBar
            THEN {[kind |-> "warn", text |-> "FlatBuffers string mismatch", i |-> i]}
            ELSE {})
         \cup
         (IF parsed.foo_number # i
            THEN {[kind |-> "warn", text |-> "FlatBuffers number mismatch", i |-> i]}
            ELSE {})
    ELSE {}

\* The console.warn calls of one pass of the screen's low-level version.
WarningsLowLevel(v, format, i, bytes) ==
  IF v = "rnlow" /\ format = "FlatBuffers"
    THEN LowLevelRead(bytes, i).warnings ELSE {}

\* if (sum === 0) console.log(...)
SumLog(v, format, sum) ==
  IF ~IsApp(v) /\ sum = 0
    THEN {[kind |-> "log", text |-> format, i |-> 0]} ELSE {}

\* Variant: the end reading is subtracted from the start reading.
ElapsedReversed(start, end) == start - end

\* performance.now() - start: the end reading is taken after the start one
Elapsed(start, end) == end - start

\* Variant: the total is measured from the first reading to the last.
TotalTimeMeasured(serializeTime, deserializeTime, startSerialize, end) ==
  end - startSerialize

\* const totalTime = serializeTime + deserializeTime
TotalTime(serializeTime, deserializeTime, startSerialize, end) ==
  serializeTime + deserializeTime

\* Variant: a large test reports the constant too.
IterationsFieldAlwaysN(format) == ITERATIONS

\* iterations: ITERATIONS in a small test, iterations: 1 in a large one
IterationsField(format) == IF IsLarge(format) THEN 1 ELSE ITERATIONS

\* The TestResult a test function returns.
Result(f) ==
  [format |-> f.format, serializeTime |-> f.serializeTime,
   deserializeTime |-> f.deserializeTime, totalTime |-> f.totalTime,
   iterations |-> IterationsField(f.format)]

(* ------------------------------ reporter ------------------------------ *)

\* (num/den microseconds as milliseconds).toFixed(2), in hundredths of a
\* millisecond: the nearest, the larger of two equally near.
ToFixed2(num, den) == (num + 5 * den) \div (10 * den)

\* formatTime(ms): `${ms.toFixed(2)} ms`
FormatTime(num, den) ==
  [isTime |-> TRUE, hundredths |-> ToFixed2(num, den), text |-> " ms"]

NotApplicable ==
  [isTime |-> FALSE, hundredths |-> 0, text |-> "N/A (single operation)"]

\* Variant: the average is always computed.
AvgFieldAlways(v, r) == FormatTime(r.totalTime, r.iterations * 2)

\* The "Avg per operation" value of a card.
AvgField(v, r) ==
  IF v = "webx"
    THEN IF r.iterations > 1
           THEN FormatTime(r.totalTime, r.iterations * 2) ELSE NotApplicable
    ELSE FormatTime(r.totalTime, r.iterations * 2)

\* One result card.
Card(v, r) ==
  [format |-> r.format,
   serialize |-> FormatTime(r.serializeTime, 1),
   deserialize |-> FormatTime(r.deserializeTime, 1),
   total |-> FormatTime(r.totalTime, 1),
   avg |-> AvgField(v, r)]

\* updateResults(results) / results.map(...) of the screen
Render(v, rs) == [j \in 1..Len(rs) |-> Card(v, rs[j])]

\* Variant: the cards are added to the content already there.
UpdateResultsAppend(v, content, rs) == content \o Render(v, rs)

\* updateResults(results): the content is replaced by the cards of results
\* (resultsContent.innerHTML = ...; on the screen, the re-rendered list).
UpdateResults(v, content, rs) == Render(v, rs)

\* Variant: the label changes but the trigger stays enabled.
DisableTriggerLabelOnly == [disabled |-> FALSE, textContent |-> "Running Tests..."]

\* The trigger while a run is in progress.
DisableTrigger == [disabled |-> TRUE, textContent |-> "Running Tests..."]

\* The trigger when no run is in progress.
EnableTrigger == [disabled |-> FALSE, textContent |-> "Run Performance Tests"]

\* The app's button for a value of isRunning.
RenderButton(running) ==
  [disabled |-> running,
   textContent |-> IF running THEN "Running Tests..." ELSE "Run Performance Tests"]

\* Variant: the results of the run before are kept when a run starts.
KeepResults(old) == <<>> \o old

\* setResults([]) / resultsContent.innerHTML = '' at the start of a run
ClearResults(old) == <<>>

\* What an observer of the output surface sees.
VisibleCards == IF display = "block" THEN cards ELSE <<>>

(* ------------------------------ actions ------------------------------- *)

\* The page as loaded: no run yet, the trigger enabled, no results shown.
Init ==
  /\ version \in Versions
  /\ lib = "faithful"
  /\ now = 0
  /\ ticks = 0
  /\ isRunning = FALSE
  /\ results = <<>>
  /\ runButton = EnableTrigger
  /\ display = "none"
  /\ cards = <<>>
  /\ shown = <<>>
  /\ inv = <<>>
  /\ cur = 0
  /\ frame = IdleFrame
  /\ heap = <<>>
  /\ console = {}
  /\ resumedAt = 0

\* The rendered screen after the app's pending state updates are committed.
Commit(running, rs) ==
  /\ runButton' = RenderButton(running)
  /\ cards' = UpdateResults(version, cards, rs)
  /\ shown' = rs
  /\ display' = IF Len(rs) > 0 THEN "block" ELSE "none"

\* The invocations once a new one starts: the locals of those that have
\* ended are no longer held.
Ended(is) ==
  [j \in 1..Len(is) |->
     IF is[j].st \in {"done", "failed"} THEN [is[j] EXCEPT !.res = <<>>]
     ELSE is[j]]

\* The user activates the trigger.  A disabled trigger delivers no event;
\* otherwise runAllTests starts and runs up to the first serialize call.
Press ==
  /\ cur = 0
  /\ IF runButton.disabled
       THEN UNCHANGED vars
       ELSE /\ Len(inv) < MaxRuns
            /\ inv' = Append(Ended(inv), [st |-> "running", k |-> 1,
                                          res |-> <<>>, pauses |-> 0])
            /\ cur' = Len(inv) + 1
            /\ IF IsApp(version)
                 THEN /\ isRunning' = TRUE
                      /\ results' = ClearResults(results)
                      /\ UNCHANGED <<runButton, display, cards, shown>>
                 ELSE /\ runButton' = DisableTrigger
                      /\ display' = "none"
                      /\ shown' = ClearResults(shown)
                      /\ cards' = ClearResults(cards)
                      /\ UNCHANGED <<isRunning, results>>
            /\ frame' = NewFrame(version, Tests(version)[1], TestStart(now, now))
            /\ heap' = NewHeap(version, Tests(version)[1])
            /\ resumedAt' = now
            /\ UNCHANGED <<version, lib, now, ticks, console>>

\* One pass of the serialize loop.
SerializeStep ==
  /\ cur # 0
  /\ frame.phase = "Serializing"
  /\ LoopContinues(frame.i, Iter(frame.format))
  /\ LET s == SerializeOne(version, frame, heap)
     IN /\ heap' = s.heap
        /\ frame' = [frame EXCEPT !.serialized = s.serialized, !.i = @ + 1,
                                 !.serializeCalls = @ + 1,
                                 !.data = IF IsLarge(frame.format) THEN NoData
                                          ELSE Fixture(version, frame.format, frame.i)]
  /\ UNCHANGED <<version, lib, now, ticks, isRunning, results, runButton, display,
                 cards, shown, inv, cur, console, resumedAt>>

\* The serialize loop has ended: serializeTime and startDeserialize are read
\* from the clock, one reading after the other.
BeginDeserialize ==
  /\ cur # 0
  /\ frame.phase = "Serializing"
  /\ ~LoopContinues(frame.i, Iter(frame.format))
  /\ \E d1 \in ClockSteps, d2 \in ClockSteps :
       /\ ticks + Advance(d1) + Advance(d2) <= MaxTicks
       /\ ticks' = ticks + Advance(d1) + Advance(d2)
       /\ now' = now + d1 + d2
       /\ frame' = [frame EXCEPT !.phase = "Deserializing", !.i = 0,
                                 !.serializeTime = Elapsed(frame.startSerialize, now + d1),
                                 !.startDeserialize = now + d1 + d2]
  /\ UNCHANGED <<version, lib, isRunning, results, runButton, display, cards,
                 shown, inv, cur, heap, console, resumedAt>>

\* One pass of the deserialize loop.
DeserializeStep ==
  /\ cur # 0
  /\ frame.phase = "Deserializing"
  /\ LoopContinues(frame.i, Iter(frame.format))
  /\ LET payload == Read(heap, frame.serialized[frame.i + 1])
         parsed == Deserialized(version, frame.format, payload, frame.i)
     IN /\ frame' = [frame EXCEPT
                       !.parsed = parsed, !.i = @ + 1,
                       !.read = FieldsRead(version, frame.format, payload, frame.i),
                       !.deserializeCalls = @ + 1,
                       !.sum = @ + SumStep(version, frame.format, parsed, payload)]
        /\ console' = console
                         \cup Warnings(version, frame.format, frame.i, parsed)
                         \cup WarningsLowLevel(version, frame.format, frame.i, payload)
  /\ UNCHANGED <<version, lib, now, ticks, isRunning, results, runButton, display,
                 cards, shown, inv, cur, heap, resumedAt>>

\* The deserialize loop has ended: the test function returns its result and
\* runAllTests publishes the results so far, then awaits the next pause or,
\* after the last test, enables the trigger again and ends.
Complete ==
  /\ cur # 0
  /\ frame.phase = "Deserializing"
  /\ ~LoopContinues(frame.i, Iter(frame.format))
  /\ \E d \in ClockSteps :
       /\ ticks + Advance(d) <= MaxTicks
       /\ ticks' = ticks + Advance(d)
       /\ now' = now + d
       /\ LET deser == Elapsed(frame.startDeserialize, now + d)
              done == [frame EXCEPT
                         !.phase = "Complete", !.deserializeTime = deser,
                         !.totalTime = TotalTime(frame.serializeTime, deser,
                                                 frame.startSerialize, now + d)]
              rs == Append(inv[cur].res, Result(done))
              last == inv[cur].k = Len(Tests(version))
          IN /\ frame' = done
             /\ console' = console \cup SumLog(version, frame.format, frame.sum)
             /\ inv' = [inv EXCEPT ![cur] =
                          [st |-> IF last THEN "done" ELSE "waiting",
                           k |-> IF last THEN @.k ELSE @.k + 1,
                           res |-> rs,
                           pauses |-> IF last THEN 0
                                      ELSE PausesBefore(version, @.k + 1)]]
             /\ IF IsApp(version)
                  THEN /\ results' = rs
                       /\ isRunning' = IF last THEN FALSE ELSE isRunning
                       /\ Commit(isRunning', rs)
                  ELSE /\ cards' = UpdateResults(version, cards, rs)
                       /\ shown' = rs
                       /\ runButton' = IF last THEN EnableTrigger ELSE runButton
                       /\ display' = IF last THEN "block" ELSE display
                       /\ UNCHANGED <<isRunning, results>>
  /\ cur' = 0
  /\ UNCHANGED <<version, lib, heap, resumedAt>>

\* A 100 ms timer of a waiting invocation fires: the next await, or the next
\* test function up to its first serialize call.
TimerFires(j) ==
  /\ cur = 0
  /\ inv[j].st = "waiting"
  /\ now' = now + PauseMs * 1000
  /\ IF inv[j].pauses > 1
       THEN /\ inv' = [inv EXCEPT ![j].pauses = @ - 1]
            /\ UNCHANGED <<cur, frame, heap, resumedAt>>
       ELSE /\ inv' = [inv EXCEPT ![j].pauses = 0, ![j].st = "running"]
            /\ cur' = j
            /\ frame' = NewFrame(version, Tests(version)[inv[j].k],
                                 TestStart(now, now'))
            /\ heap' = NewHeap(version, Tests(version)[inv[j].k])
            /\ resumedAt' = now'
  /\ UNCHANGED <<version, lib, ticks, isRunning, results, runButton, display, cards,
                 shown, console>>

\* Variant: the run-in-progress flag is reset when the run ends by an error.
RunningAfterThrowReset(running) == FALSE

\* The run-in-progress flag when runAllTests ends by an error: there is no
\* catch or finally, so it is what it was.
RunningAfterThrow(running) == running

\* A codec call throws: nothing in runAllTests catches it, so the invocation
\* ends there with its promise rejected.
Throw ==
  /\ cur # 0
  /\ frame.phase \in {"Serializing", "Deserializing"}
  /\ LoopContinues(frame.i, Iter(frame.format))
  /\ inv' = [inv EXCEPT ![cur].st = "failed"]
  /\ cur' = 0
  /\ IF IsApp(version)
       THEN /\ isRunning' = RunningAfterThrow(isRunning)
            /\ Commit(isRunning', results)
       ELSE /\ runButton' = IF RunningAfterThrow(runButton.disabled)
                               THEN runButton ELSE EnableTrigger
            /\ UNCHANGED <<isRunning, display, cards, shown>>
  /\ UNCHANGED <<version, lib, now, ticks, results, frame, heap, console,
                 resumedAt>>

Next ==
  \/ Press
  \/ SerializeStep
  \/ BeginDeserialize
  \/ DeserializeStep
  \/ Complete
  \/ \E j \in 1..Len(inv) : TimerFires(j)
  \/ Throw

Spec == Init /\ [][Next]_vars

\* Some awaited timer fires.
TimerFiresSome == \E j \in 1..Len(inv) : TimerFires(j)

\* A step of the run in progress other than a deserialize call: the next
\* statement of the synchronous code executing or, at a pause, its timer.
RunStep ==
  \/ SerializeStep
  \/ BeginDeserialize
  \/ Complete
  \/ TimerFiresSome

\* The guard of DeserializeStep: the action is enabled exactly when it holds.
DeserializeEnabled ==
  /\ cur # 0
  /\ frame.phase = "Deserializing"
  /\ LoopContinues(frame.i, Iter(frame.format))

\* Synchronous code that has started runs on (nothing preempts the single
\* thread), and a timer that has been set fires.  Nothing obliges the user
\* to activate the trigger or a codec call to throw.  The second conjunct
\* is WF_vars(DeserializeStep) with its enabling condition written out.
Fairness ==
  /\ WF_vars(RunStep)
  /\ ([]<>(~DeserializeEnabled) \/ []<><<DeserializeStep>>_vars)

FairSpec == Spec /\ Fairness

\* The screen, loaded with a FlatBuffers library that may store something
\* else than it was given.
InitAnyLibrary ==
  /\ version \in {v \in Versions : IsApp(v)}
  /\ lib \in Libraries
  /\ now = 0
  /\ ticks = 0
  /\ isRunning = FALSE
  /\ results = <<>>
  /\ runButton = EnableTrigger
  /\ display = "none"
  /\ cards = <<>>
  /\ shown = <<>>
  /\ inv = <<>>
  /\ cur = 0
  /\ frame = IdleFrame
  /\ heap = <<>>
  /\ console = {}
  /\ resumedAt = 0

SpecAnyLibrary == InitAnyLibrary /\ [][Next]_vars

(* ------------------------------ claims -------------------------------- *)

Active(j) == inv[j].st \in {"running", "waiting"}

AllResults ==
  UNION {{inv[j].res[m] : m \in 1..Len(inv[j].res)} : j \in 1..Len(inv)}
    \cup {results[m] : m \in 1..Len(results)}

\* The payloads a test function holds.
Stored(f) == {j \in 1..Len(f.serialized) : f.serialized[j] # Undefined}

\* C1: at most one invocation of runAllTests is between its start and its
\* end, and whenever control is back in the event loop during a run the
\* trigger is disabled.
C1_OneRunAtATime ==
  /\ Cardinality({j \in 1..Len(inv) : Active(j)}) <= 1
  /\ (cur = 0 /\ \E j \in 1..Len(inv) : Active(j)) => runButton.disabled

\* A second run is waiting at a pause, after the first one has ended.
C1_Witness ==
  /\ cur = 0
  /\ Len(inv) = 2
  /\ inv[1].st = "done"
  /\ inv[2].st = "waiting"
  /\ runButton.disabled

\* C2: every result's totalTime is its serializeTime plus its
\* deserializeTime.
C2_TotalIsSum ==
  /\ \A r \in AllResults : r.totalTime = r.serializeTime + r.deserializeTime
  /\ frame.phase = "Complete" =>
       frame.totalTime = frame.serializeTime + frame.deserializeTime

\* A large test has returned a result whose two halves both took time and
\* whose readings had time pass between them.
C2_Witness ==
  /\ frame.phase = "Complete"
  /\ IsLarge(frame.format)
  /\ frame.serializeTime > 0
  /\ frame.startDeserialize > frame.startSerialize + frame.serializeTime
  /\ Result(frame) \in AllResults

\* The order the formats are declared to run in.
DeclaredOrder ==
  <<"JSON", "MessagePack", "FlatBuffers", "Avro",
    "JSON (5MB)", "MessagePack (5MB)", "FlatBuffers (5MB)">>

\* C3: in every run the results so far are those of the first formats of
\* the declared order, in that order, and the test function executing is
\* the one of the next format: it started after the previous one returned.
C3_DeclaredOrder ==
  /\ \A j \in 1..Len(inv) :
       /\ Len(inv[j].res) <= Len(DeclaredOrder)
       /\ \A m \in 1..Len(inv[j].res) : inv[j].res[m].format = DeclaredOrder[m]
       /\ inv[j].st = "running" =>
            /\ cur = j
            /\ frame.format = DeclaredOrder[Len(inv[j].res) + 1]
  /\ Cardinality({j \in 1..Len(inv) : inv[j].st = "running"}) <= 1

\* A second run of the extended page has produced all seven results.
C3_Witness ==
  /\ Len(inv) = 2
  /\ inv[2].st = "done"
  /\ Len(inv[2].res) = 7
  /\ inv[1].st = "done"

\* C4: at every yield point of a run the output surface shows the cards of
\* exactly the formats completed so far.
C4_CardsShownIncrementally ==
  \A j \in 1..Len(inv) :
    (cur = 0 /\ inv[j].st = "waiting") =>
      /\ Len(VisibleCards) = Len(inv[j].res)
      /\ \A m \in 1..Len(inv[j].res) :
           VisibleCards[m].format = inv[j].res[m].format

\* C5: every card shown is the card of the result at its place, and its
\* average is totalTime / (iterations * 2) to two decimals when
\* iterations > 1 and the not-applicable marker when iterations = 1.
C5_AverageField ==
  /\ Len(cards) = Len(shown)
  /\ \A m \in 1..Len(cards) :
       LET r == shown[m]
       IN /\ cards[m].format = r.format
          /\ IF r.iterations > 1
               THEN /\ cards[m].avg.isTime
                    /\ cards[m].avg.hundredths =
                         (r.totalTime + 10 * r.iterations)
                           \div (20 * r.iterations)
               ELSE /\ ~cards[m].avg.isTime
                    /\ cards[m].avg.text = "N/A (single operation)"

\* The extended page shows a small result whose average rounds to 0.01 ms
\* and a large result marked not applicable.
C5_Witness ==
  /\ Len(cards) >= 5
  /\ cards[1].avg.isTime
  /\ cards[1].avg.hundredths = 1
  /\ ~cards[5].avg.isTime

\* The phases of a test function and the steps between them.
PhaseStep ==
  \/ frame' = frame
  \/ /\ frame.phase \in {"Idle", "Complete"}
     /\ frame'.phase = "Serializing"
     /\ Stored(frame') = {}
  \/ /\ frame.phase = "Serializing"
     /\ frame'.phase = "Serializing"
     /\ frame'.format = frame.format
     /\ frame'.i = frame.i + 1
  \/ /\ frame.phase = "Serializing"
     /\ frame'.phase = "Deserializing"
     /\ frame'.format = frame.format
     /\ frame'.serialized = frame.serialized
  \/ /\ frame.phase = "Deserializing"
     /\ frame'.phase = "Deserializing"
     /\ frame'.format = frame.format
     /\ frame'.i = frame.i + 1
     /\ frame'.serialized = frame.serialized
  \/ /\ frame.phase = "Deserializing"
     /\ frame'.phase = "Complete"
     /\ frame'.format = frame.format

\* While serializing nothing has been deserialized; from the first
\* deserialize call on, all N payloads are held, payload i at index i.
LoopsSeparated ==
  /\ frame.phase = "Serializing" =>
       /\ Cardinality(Stored(frame)) = frame.i
       /\ frame.parsed = NoData
       /\ frame.sum = 0
  /\ frame.phase \in {"Deserializing", "Complete"} =>
       /\ Stored(frame) = 1..Iter(frame.format)
       /\ \A j \in Stored(frame) :
            Read(heap, frame.serialized[j])
              = Encode(version, frame.format, j - 1)

\* C6: a test function goes Idle, Serializing, Deserializing, Complete and
\* nowhere else, and its loops are separated: at the first deserialize call
\* exactly N payloads are held, payload i at index i.
C6_PhasesInOrder == []LoopsSeparated /\ [][PhaseStep]_vars

\* The table test is about to make its first deserialize call.
C6_Witness ==
  /\ frame.phase = "Deserializing"
  /\ frame.format = "FlatBuffers"
  /\ frame.i = 0
  /\ Cardinality(Stored(frame)) = ITERATIONS

\* The string iteration i of a small test generates.
GeneratedString(v, format, i) ==
  IF v = "webx" /\ format = "JSON" THEN StrBar \o Digits(i) ELSE StrBar

\* Whether the test deserializes with the decode half of its codec (the
\* screen's low-level version reads the buffer by hand instead).
DecodesWithCodec(v, format) == ~(v = "rnlow" /\ format = "FlatBuffers")

C8_PayloadsOwned ==
  (ReusesBuilder(version) /\ frame.format = "FlatBuffers")
  => \A j \in Stored(frame) :
       /\ frame.serialized[j].buf # frame.builder
       /\ \A m \in Stored(frame) :
            m # j => frame.serialized[m].buf # frame.serialized[j].buf
       /\ FbFooNumber(Read(heap, frame.serialized[j])) = j - 1
       /\ FbFoo(Read(heap, frame.serialized[j])) = StrBar
       /\ Read(heap, frame.serialized[j]) = FbTestData(StrBar, j - 1)

\* All N payloads are stored, the builder having been rewritten after the
\* first of them was.
C8_Witness ==
  /\ ReusesBuilder(version)
  /\ frame.format = "FlatBuffers"
  /\ frame.phase = "Deserializing"
  /\ Cardinality(Stored(frame)) = ITERATIONS
  /\ heap[frame.builder] = FbTestData(StrBar, ITERATIONS - 1)

\* C9: the readings a result is computed from are all taken in the
\* synchronous section the test function runs in, so no pause lies between
\* them, and no time field holds a pause.
C9_PausesNotMeasured ==
  /\ frame.phase # "Idle" => frame.startSerialize >= resumedAt
  /\ frame.phase \in {"Deserializing", "Complete"} =>
       /\ frame.startSerialize + frame.serializeTime <= frame.startDeserialize
       /\ frame.startDeserialize <= now
  /\ frame.phase = "Complete" =>
       frame.startDeserialize + frame.deserializeTime <= now
  /\ \A r \in AllResults :
       /\ r.serializeTime < PauseMs * 1000
       /\ r.deserializeTime < PauseMs * 1000
       /\ r.totalTime < PauseMs * 1000

\* A test that started after a pause has returned a result that took time.
C9_Witness ==
  /\ now >= PauseMs * 1000
  /\ frame.phase = "Complete"
  /\ frame.startSerialize >= PauseMs * 1000
  /\ frame.totalTime > 0
  /\ Result(frame) \in AllResults

\* C10: after a codec call has thrown, no later test runs, the invocation
\* has ended with the error, and the screen reports a failed run: it neither
\* shows a run in progress nor shows the results obtained before the error.
C10_FailedRunReported ==
  \A j \in 1..Len(inv) :
    inv[j].st = "failed" =>
      /\ cur # j
      /\ Len(inv[j].res) = inv[j].k - 1
      /\ runButton.textContent # "Running Tests..."
      /\ VisibleCards = <<>>

\* Some invocation of runAllTests is between its start and its end.
RunInProgress == \E j \in 1..Len(inv) : Active(j)

\* C11: whenever the screen can be looked at (control is in the event loop)
\* the trigger is disabled exactly when a run is in progress, and it reads
\* "Running Tests..." exactly when it is disabled and "Run Performance
\* Tests" exactly when it is enabled.
C11_TriggerTracksRun ==
  cur = 0 =>
    /\ runButton.disabled <=> RunInProgress
    /\ runButton.disabled <=> runButton.textContent = "Running Tests..."
    /\ ~runButton.disabled <=> runButton.textContent = "Run Performance Tests"

\* The list last handed to the renderer: the results state of the screen,
\* the argument of the last updateResults (or the cleared content) on the
\* pages.
Published == IF IsApp(version) THEN results ELSE shown

PublishStep ==
  \/ Published' = Published
  \/ /\ Len(inv') = Len(inv) + 1
     /\ Published' = <<>>
  \/ /\ Len(inv') = Len(inv)
     /\ frame.phase = "Deserializing"
     /\ frame'.phase = "Complete"
     /\ Published' = Append(Published, Result(frame'))
     /\ Result(frame').format = Tests(version)[Len(Published) + 1]
     /\ \A m \in 1..Len(Published) : Published'[m] = Published[m]

\* The cards shown are those of the list they were rendered from, one card
\* per result and in its order, however often that list was rendered.
RenderedOnce ==
  /\ Len(cards) = Len(shown)
  /\ \A m \in 1..Len(cards) : cards[m] = Card(version, shown[m])
  /\ UpdateResults(version, UpdateResults(version, cards, shown), shown)
       = UpdateResults(version, cards, shown)

\* C13: during a run the published list only grows by appending the result
\* of the format that just completed, published results keep their place
\* and fields, and rendering a list again gives the same cards.
C13_AppendOnly == []RenderedOnce /\ [][PublishStep]_vars

\* The extended page has published four results, one after the other, and
\* rendered the list each time.
C13_Witness ==
  /\ version = "webx"
  /\ cur = 0
  /\ Len(inv) = 1
  /\ inv[1].st = "waiting"
  /\ Len(Published) = 4
  /\ Len(cards) = 4

\* C14: the clock never going back, every result of every format has
\* serializeTime >= 0 and deserializeTime >= 0, and so has the test
\* function executing: each interval's start reading is not after its end
\* reading.
C14_TimesNotNegative ==
  /\ \A r \in AllResults : r.serializeTime >= 0 /\ r.deserializeTime >= 0
  /\ frame.serializeTime >= 0
  /\ frame.deserializeTime >= 0
  /\ frame.phase # "Idle" => frame.startSerialize <= now
  /\ frame.phase \in {"Deserializing", "Complete"} =>
       /\ frame.startSerialize <= frame.startDeserialize
       /\ frame.startDeserialize <= now

\* A result both of whose halves saw the clock advance has been published.
C14_Witness ==
  \E r \in AllResults : r.serializeTime > 0 /\ r.deserializeTime > 0

\* C15: a small test's result has iterations = N and the test has made
\* exactly N serialize calls and N deserialize calls when it returns; a
\* large test's result has iterations = 1 and the test has made exactly one
\* serialize call and one deserialize call, in every version.
C15_IterationsField ==
  /\ \A r \in AllResults :
       r.iterations = IF r.format \in LargeFormats THEN 1 ELSE ITERATIONS
  /\ frame.phase = "Complete" =>
       /\ frame.serializeCalls = Result(frame).iterations
       /\ frame.deserializeCalls = Result(frame).iterations
       /\ frame.format \in SmallFormats => frame.serializeCalls = ITERATIONS
       /\ frame.format \in LargeFormats => frame.serializeCalls = 1
  /\ frame.phase = "Deserializing" =>
       /\ frame.serializeCalls = (IF IsLarge(frame.format) THEN 1 ELSE ITERATIONS)
       /\ frame.deserializeCalls <= frame.serializeCalls

\* The extended page has published the result of a small test and of a
\* large test, the large test just having returned.
C15_Witness ==
  /\ frame.phase = "Complete"
  /\ frame.format = "MessagePack (5MB)"
  /\ frame.deserializeCalls = 1
  /\ \E r \in AllResults : r.format = "JSON" /\ r.iterations = ITERATIONS
  /\ \E r \in AllResults : r.format = "MessagePack (5MB)" /\ r.iterations = 1

\* C16: in every small test of every version, the record serialized in
\* iteration i is { foo: "bar", foo_number: i }.
C16_SameRecord ==
  (/\ frame.phase = "Serializing"
   /\ frame.format \in SmallFormats
   /\ frame.serializeCalls >= 1)
  => frame.data = [foo |-> StrBar, foo_number |-> frame.serializeCalls - 1]

\* A console.warn for iteration i whose text begins with t.
Warned(t, i) ==
  \E w \in console : w.kind = "warn" /\ w.i = i /\ w.text = t

\* After each pass of the screen's FlatBuffers deserialize loop: a decoded
\* string other than "bar" and a decoded number other than i have each been
\* reported with the iteration (the low-level version decodes no string,
\* only a length); and when the loop has ended, it has made all N calls and
\* its result is published.
ValidationReports ==
  (IsApp(version) /\ frame.format = "FlatBuffers"
     /\ frame.phase \in {"Deserializing", "Complete"})
  => /\ frame.deserializeCalls >= 1 =>
          LET i == frame.deserializeCalls - 1
          IN /\ (version = "rn" /\ frame.parsed.foo # StrBar)
                  => Warned("FlatBuffers string mismatch", i)
             /\ ("foo_number" \in frame.read /\ frame.parsed.foo_number # i)
                  => Warned("FlatBuffers number mismatch", i)
     /\ Len(inv) = 1 => \A w \in console : w.i < frame.deserializeCalls
     /\ frame.phase = "Complete" =>
          /\ frame.deserializeCalls = ITERATIONS
          /\ Len(Published) = 3
          /\ Published[3] = Result(frame)

\* A step that emits a diagnostic is a pass of the deserialize loop, and the
\* loop goes on to the next index: the run is neither ended nor suspended.
ValidationStep ==
  console' # console =>
    /\ frame.phase = "Deserializing"
    /\ frame'.phase = "Deserializing"
    /\ frame'.i = frame.i + 1
    /\ inv' = inv
    /\ cur' = cur

\* C17: a decoded value that does not match is reported with its iteration
\* and nothing else happens: the loop continues, all N payloads are
\* deserialized, the result is returned and published.
C17_ValidationAdvisory == []ValidationReports /\ [][ValidationStep]_vars

\* With a library that stores another number, the screen has warned about
\* the first and the last iteration and the run has completed with its
\* three results.
C17_Witness ==
  /\ version = "rn"
  /\ lib = "other number"
  /\ Warned("FlatBuffers number mismatch", 0)
  /\ Warned("FlatBuffers number mismatch", ITERATIONS - 1)
  /\ Len(inv) = 1
  /\ inv[1].st = "done"
  /\ Len(results) = 3
  /\ ~runButton.disabled

\* C18: after every pass of a FlatBuffers deserialize loop, the pass has
\* read every field of the decoded record: the string and the number in the
\* small test, each person's strings and version in the large one.
C18_EveryFieldRead ==
  (/\ frame.format \in {"FlatBuffers", "FlatBuffers (5MB)"}
   /\ frame.phase \in {"Deserializing", "Complete"}
   /\ frame.deserializeCalls >= 1)
  => frame.read = AllFields(frame.format)

\* The formats of a version, counted.
FormatCount == IF version = "webx" THEN 7 ELSE 3

\* Invocation j has ended after its last test: one result per declared
\* format, all labels different, published, and the trigger enabled again.
RunCompleted(j) ==
  /\ inv[j].st = "done"
  /\ Len(inv[j].res) = FormatCount
  /\ \A a \in 1..FormatCount : \A b \in 1..FormatCount :
       a # b => inv[j].res[a].format # inv[j].res[b].format
  /\ Published = inv[j].res
  /\ runButton = [disabled |-> FALSE, textContent |-> "Run Performance Tests"]

\* An invocation ends in no other way than after its last test or by an
\* error thrown in a test.
EndsOnlyAtEnd ==
  \A j \in 1..Len(inv) :
    (Active(j) /\ inv'[j].st \notin {"running", "waiting"}) =>
      \/ inv'[j].st = "failed" /\ frame' = frame
      \/ /\ inv'[j].st = "done"
         /\ Len(inv'[j].res) = FormatCount
         /\ frame'.format = DeclaredOrder[FormatCount]

\* C19: timers firing and no codec call throwing, every run that starts
\* comes to the state in which it has one result per declared format (3, or
\* 7 on the extended page), with different labels, and the trigger is
\* enabled again; and a run ends nowhere before that except by a throw.
C19_RunCompletes ==
  /\ RunInProgress
       ~> (/\ Len(inv) > 0
           /\ inv[Len(inv)].st = "failed" \/ RunCompleted(Len(inv)))
  /\ [][EndsOnlyAtEnd]_vars

\* A run of the basic page has ended with its three results shown and the
\* trigger enabled.
C19_Witness ==
  /\ version = "web"
  /\ Len(inv) = 1
  /\ RunCompleted(1)
  /\ display = "block"
  /\ Len(cards) = 3

\* Some invocation of runAllTests has ended by an error.
RunFailed == \E j \in 1..Len(inv) : inv[j].st = "failed"

\* After an error: the flag is set, the trigger is disabled and reads
\* "Running Tests...", and the failed run is the last one started.
StuckDisabled ==
  RunFailed =>
    /\ runButton = [disabled |-> TRUE, textContent |-> "Running Tests..."]
    /\ IsApp(version) => isRunning
    /\ inv[Len(inv)].st = "failed"
    /\ cur = 0

\* After an error no step changes the trigger, the flag or the runs.
NothingAfterError ==
  RunFailed => UNCHANGED <<runButton, isRunning, inv, cur>>

\* C20: once a codec call has thrown inside runAllTests the trigger is never
\* enabled again: in every later state the flag is set, the trigger is
\* disabled with the label "Running Tests...", and no further run starts.
C20_NeverReEnabled == []StuckDisabled /\ [][NothingAfterError]_vars

\* The second run of a session has ended by an error in its second test.
C20_Witness ==
  /\ Len(inv) = 2
  /\ inv[1].st = "done"
  /\ inv[2].st = "failed"
  /\ inv[2].k = 2
  /\ runButton.disabled

====
